---- MODULE Spec2Model ----
(***************************************************************************)
(* A model of src/src/index.js: the dependency walkers (walk_depgraph,     *)
(* walk_deptree) and the install visitor `enter` of main(), run against an *)
(* abstract file system.                                                   *)
(*                                                                         *)
(* Strings are sequences of tokens.  The characters the code gives a       *)
(* meaning to ("@", "/", "+") are tokens of their own, so the regular      *)
(* expressions and template literals of the source are computed on the     *)
(* token sequence the way the code computes them on characters.            *)
(***************************************************************************)
EXTENDS Integers, Sequences, FiniteSets, TLC

(***************************************************************************)
(* String helpers                                                          *)
(***************************************************************************)

\* concatenation of a sequence of strings (a template literal)
RECURSIVE Cat(_)
Cat(ss) == IF ss = <<>> THEN <<>> ELSE Head(ss) \o Cat(Tail(ss))

\* index of the last occurrence of token t in s, 0 when there is none
LastIndexOf(s, t) ==
  LET I == {i \in 1..Len(s) : s[i] = t}
  IN IF I = {} THEN 0 ELSE CHOOSE i \in I : \A j \in I : j <= i

\* s.startsWith(p)
StartsWith(s, p) == Len(s) >= Len(p) /\ SubSeq(s, 1, Len(p)) = p

\* s.slice(n) for n >= 0
SliceFrom(s, n) == SubSeq(s, n + 1, Len(s))

\* str.replace(/[/]/g, '+')
EscapeSlash(s) == [i \in 1..Len(s) |-> IF s[i] = "/" THEN "+" ELSE s[i]]

\* str.includes('/')
IncludesSlash(s) == \E i \in 1..Len(s) : s[i] = "/"

\* the value of a property that was never set
Undefined == <<"undefined">>

\* childNodeId.replace(/.*@/, '')  and  node.pkgId.replace(/^.*@/, '')
VersionOfId(id) == SliceFrom(id, LastIndexOf(id, "@"))

\* childNodeId.slice(0, -1*version.length - 1)
NameOfChildId(id) ==
  LET n == Len(id) - Len(VersionOfId(id)) - 1
  IN IF n > 0 THEN SubSeq(id, 1, n) ELSE <<>>

\* node.pkgId.replace(/@[^@\/]*$/, '')
NameOfPkgId(id) ==
  LET k == LastIndexOf(id, "@")
  IN IF k > 0 /\ ~IncludesSlash(SliceFrom(id, k)) THEN SubSeq(id, 1, k - 1) ELSE id

\* `${dep.name}@${dep.version}`
NameVersionOf(name, version) == Cat(<<name, <<"@">>, version>>)

(***************************************************************************)
(* Paths: a path string is split at its "/" tokens into segments           *)
(***************************************************************************)

RECURSIVE Segments(_, _)
Segments(s, cur) ==
  IF s = <<>> THEN <<cur>>
  ELSE IF Head(s) = "/" THEN <<cur>> \o Segments(Tail(s), <<>>)
  ELSE Segments(Tail(s), Append(cur, Head(s)))

\* resolution of "." , ".." and empty segments, keeping leading ".."
RECURSIVE NormSegs(_, _)
NormSegs(segs, acc) ==
  IF segs = <<>> THEN acc
  ELSE LET h == Head(segs) IN
       IF h = <<>> \/ h = <<".">> THEN NormSegs(Tail(segs), acc)
       ELSE IF h = <<"..">> /\ acc # <<>> /\ acc[Len(acc)] # <<"..">>
            THEN NormSegs(Tail(segs), SubSeq(acc, 1, Len(acc) - 1))
       ELSE NormSegs(Tail(segs), Append(acc, h))

IsAbsolute(p) == p # <<>> /\ p[1] = "/"

\* the file a path string names, seen from the working directory:
\* [abs |-> is it absolute, segs |-> its normalised segments]
PathKey(p) == [abs |-> IsAbsolute(p), segs |-> NormSegs(Segments(p, <<>>), <<>>)]

\* the file a symlink stored at `key` with target string `target` points at
ResolveLink(key, target) ==
  IF IsAbsolute(target) THEN PathKey(target)
  ELSE [abs |-> key.abs,
        segs |-> NormSegs(Segments(target, <<>>), SubSeq(key.segs, 1, Len(key.segs) - 1))]

(***************************************************************************)
(* The input: a lock file parsed into nodes keyed by "name@version", each  *)
(* with a resolved locator and an ordered list of children.                *)
(***************************************************************************)

PkgA   == <<"pkgA", "@", "1.0.0">>
PkgA2  == <<"pkgA", "@", "2.0.0">>
PkgB   == <<"pkgB", "@", "1.0.0">>
PkgP   == <<"p", "@", "1.0.0">>
Scoped == <<"@", "s", "/", "c", "@", "1.0.0">>
Opt    == <<"opt", "@">>
DirD   == <<"d", "@", "1.0.0">>
Fix    == <<"proxy-from-env", "@", "1.1.0">>
Rel    == <<"r", "@", "1.0.0">>
BadTar == <<"f", "@", "1.0.0">>
OptPJ  == <<"package.json", "@">>
NoTar  == <<"g", "@", "1.0.0">>

NodeIds == {PkgA, PkgA2, PkgB, PkgP, Scoped, Opt, DirD, Fix, Rel, BadTar, OptPJ, NoTar}

\* the one locator the visitor special-cases (index.js:455, 463)
MirrorUrl == <<"https://mirrors.tencent.com/npm/proxy-from-env/-/proxy-from-env-1.1.0.tgz">>

\* an archive path at which there is no file
MissingArchive == <<"/", "tarballs", "/", "missing.tgz">>

\* node.info.labels.resolved of each node
ResolvedOf(id) ==
  CASE id = Opt    -> <<>>
    [] id = DirD   -> <<"/", "ext", "/", "d">>
    [] id = Fix    -> MirrorUrl
    [] id = Rel    -> <<"vendor", "/", "r">>
    [] id = BadTar -> <<"file://", "tarballs", "/", "f.tgz">>
    [] id = OptPJ  -> <<>>
    [] id = NoTar  -> <<"file://">> \o MissingArchive
    [] OTHER       -> <<"file://", "/", "tarballs", "/">> \o id \o <<".tgz">>

\* the root packages: pkgId of graph.nodes[0]
RootIds == {<<"proj", "@", "1.0.0">>, <<"proj", "@">>, <<"package.json", "@">>}

\* the dependency graphs: node.deps of each node, RootNode for graph.nodes[0]
RootNode == <<"root-node">>

NoDeps == [id \in NodeIds \cup {RootNode} |-> <<>>]

Chain ==
  [NoDeps EXCEPT ![RootNode] = <<PkgA>>, ![PkgA] = <<PkgB>>]

Diamond ==
  [NoDeps EXCEPT ![RootNode] = <<PkgA, PkgB>>, ![PkgA] = <<PkgP>>,
                 ![PkgB] = <<PkgP>>, ![PkgP] = <<Scoped>>]

Cyclic ==
  [NoDeps EXCEPT ![RootNode] = <<PkgA>>, ![PkgA] = <<PkgA, PkgB>>, ![PkgB] = <<PkgA, PkgP>>,
                 ![PkgP] = <<PkgB>>]

Versions ==
  [NoDeps EXCEPT ![RootNode] = <<Scoped, PkgA>>, ![PkgA] = <<Opt, PkgB>>,
                 ![PkgB] = <<PkgA2, Scoped>>]

SelfLoop ==
  [NoDeps EXCEPT ![RootNode] = <<PkgA>>, ![PkgA] = <<PkgA>>]

Locators ==
  [NoDeps EXCEPT ![RootNode] = <<Opt, OptPJ, DirD, NoTar, Rel, Fix, BadTar>>]

Graphs == <<Chain, SelfLoop, Cyclic, Versions, Diamond, Locators>>

\* the identities of a graph: its root and every node some edge names
IdentitiesOf(g, rootId) ==
  {rootId} \cup {id \in NodeIds : \E n \in DOMAIN g : \E i \in 1..Len(g[n]) : g[n][i] = id}

(***************************************************************************)
(* package.json of each package: its bin field and its scripts             *)
(***************************************************************************)

NoBin == [kind |-> "none", names |-> <<>>, files |-> <<>>]

ManifestOf(pkg) ==
  CASE pkg = PkgA -> [bin |-> [kind |-> "string", names |-> <<>>, files |-> <<<<"cli.js">>>>],
                      scripts |-> {"install"}]
    [] pkg = PkgB -> [bin |-> [kind |-> "object", names |-> << <<"tool">>, <<"pkgA">> >>,
                               files |-> << <<"bin", "/", "tool.js">>, <<"alt.js">> >>],
                      scripts |-> {}]
    [] pkg = PkgP -> [bin |-> NoBin, scripts |-> {"preinstall", "postinstall", "test"}]
    [] pkg = Fix  -> [bin |-> NoBin, scripts |-> {"test"}]
    [] OTHER      -> [bin |-> NoBin, scripts |-> {}]

(***************************************************************************)
(* The file system: the entries the run has read or written, by path.      *)
(* What is on disk before the run is an input: it is drawn from a small    *)
(* set when the run first looks at a path (emptyStart: nothing is there).  *)
(***************************************************************************)

Absent    == [k |-> "absent", target |-> <<>>, pkg |-> <<>>]
DirOf(p)  == [k |-> "dir", target |-> <<>>, pkg |-> p]
LinkTo(t) == [k |-> "link", target |-> t, pkg |-> <<>>]
FileOf(c) == [k |-> "file", target |-> <<>>, pkg |-> c]

EmptyFs == [x \in {} |-> Absent]

\* the entry at a path (lstat): what the run knows, else nothing
EntryAt(f, key) == IF key \in DOMAIN f THEN f[key] ELSE Absent

\* first look at a path: the entry found there before the run
Obs(f, key, e) == IF key \in DOMAIN f THEN f ELSE (key :> e) @@ f

Put(f, key, e) == (key :> e) @@ f

\* directories outside the project that exist
ExternalExists(key) == key.abs /\ key.segs # <<>> /\ key.segs[1] = <<"ext">>

\* fs.existsSync(path): follows symbolic links
RECURSIVE ExistsN(_, _, _)
ExistsN(f, key, n) ==
  IF key.abs THEN ExternalExists(key)
  ELSE LET e == EntryAt(f, key) IN
       CASE e.k = "absent" -> FALSE
         [] e.k = "link"   -> n > 0 /\ ExistsN(f, ResolveLink(key, e.target), n - 1)
         [] OTHER          -> TRUE

\* how many symbolic links a lookup follows
MaxSymlinkHops == 2

Exists(f, key) == ExistsN(f, key, MaxSymlinkHops)

(***************************************************************************)
(* Store layout (index.js:416-441)                                         *)
(***************************************************************************)

store_dir == <<".pnpm">>

NM == <<"node_modules">>
SL == <<"/">>

\* dep.nameVersion.replace(/[/]/g, '+')
NameVersionStoreOf(nameVersion) == EscapeSlash(nameVersion)

\* dep_path: where the link to the dependency is made
DepPathOf(dep, parentStore, isRootDep) ==
  IF isRootDep
  THEN Cat(<<NM, SL, dep.name>>)
  ELSE Cat(<<NM, SL, store_dir, SL, parentStore, SL, NM, SL, dep.name>>)

\* dep_target: the target string stored in that link
DepTargetOf(dep, isRootDep) ==
  (IF IncludesSlash(dep.name) THEN <<"..", "/">> ELSE <<>>) \o
  (IF isRootDep
   THEN Cat(<<store_dir, SL, NameVersionStoreOf(dep.nameVersion), SL, NM, SL, dep.name>>)
   ELSE Cat(<<<<"..", "/", "..", "/">>, NameVersionStoreOf(dep.nameVersion), SL, NM, SL, dep.name>>))

\* dep_store: the one directory of the store that holds the package
DepStoreOf(dep) ==
  Cat(<<NM, SL, store_dir, SL, NameVersionStoreOf(dep.nameVersion), SL, NM, SL, dep.name>>)

NoPlan == [dep_path |-> <<>>, dep_target |-> <<>>, dep_store |-> <<>>]

(***************************************************************************)
(* State                                                                   *)
(***************************************************************************)

VARIABLES
  lockfileVersion,  \* pkgLock.lockfileVersion
  rootPkgId,        \* pkgId of the root node: `${pkg.name}@${pkg.version}`
  graph,            \* index into Graphs: the parsed lock file
  emptyStart,       \* TRUE: nothing is on disk before the first run
  pc,               \* where main() is
  stack,            \* the nested walk calls: one frame per entry of depPath
  doneUnpack,       \* Set of nameVersion (index.js:217)
  doneScripts,      \* Set of nameVersion (index.js:218)
  fs,               \* the file system
  shimList,         \* entries of node_modules/.bin still to patch
  error,            \* the error main() was rejected with, "none" without one
  plans,            \* history: the layout computed at each visit
  unpackLog,        \* history: the calls of unpack
  linkLog,          \* history: the outcome of the link step of each visit
  binLog,           \* history: the outcome of each binary link of a root dependency
  storeLog,         \* history: the store directory before and after the resolver
  shimLog,          \* history: the outcome of each pass of the shim loop
  scriptLog,        \* history: the lifecycle scripts spawned
  events,           \* history: visits started and finished, shim generation
  run,              \* 1: the first run of the program on this input, 2: the next one
  first             \* how the first run ended and the disk it left

vars == <<lockfileVersion, rootPkgId, graph, emptyStart, pc, stack, doneUnpack,
          doneScripts, fs, shimList, error, plans, unpackLog, linkLog, binLog, storeLog,
          shimLog, scriptLog, events, run, first>>

inputs == <<lockfileVersion, rootPkgId, graph, emptyStart>>

earlier == <<run, first>>

\* before the first run has ended
NoFirst == [ended |-> "none", error |-> "none", stack |-> <<>>, fs |-> EmptyFs]

LockVersions == {1, 2, 3, 4}

G == Graphs[graph]

\* [deps, walk_deps] of index.js:209-214
Walker ==
  CASE lockfileVersion = 3 -> "graph"
    [] lockfileVersion = 2 -> "graph"
    [] lockfileVersion = 1 -> "tree"
    [] OTHER               -> "null"

Top == stack[Len(stack)]

isRootPkg == Len(stack) = 1
isRootDep == Len(stack) = 2

Frame(dep, node) == [dep |-> dep, node |-> node, i |-> 1, plan |-> NoPlan]

\* the dep of the root: index.js:106-112 (graph), the tree itself (tree)
RootDepOf(walker, pkgId) ==
  [nameVersion |-> IF walker = "graph" THEN pkgId ELSE Undefined,
   name |-> NameOfPkgId(pkgId),
   version |-> VersionOfId(pkgId),
   resolved |-> <<>>,
   nameVersionStore |-> Undefined]

\* childDep of index.js:126-142 (graph), _this.dependencies[key] (tree)
ChildDepOf(walker, childNodeId) ==
  [nameVersion |-> IF walker = "graph" THEN childNodeId ELSE Undefined,
   name |-> NameOfChildId(childNodeId),
   version |-> VersionOfId(childNodeId),
   resolved |-> ResolvedOf(childNodeId),
   nameVersionStore |-> Undefined]

Init ==
  /\ lockfileVersion \in LockVersions
  /\ rootPkgId \in RootIds
  /\ graph \in 1..Len(Graphs)
  /\ emptyStart \in BOOLEAN
  /\ pc = "main"
  /\ stack = <<>>
  /\ doneUnpack = {}
  /\ doneScripts = {}
  /\ fs = EmptyFs
  /\ shimList = {}
  /\ error = "none"
  /\ plans = {}
  /\ unpackLog = <<>>
  /\ linkLog = <<>>
  /\ binLog = <<>>
  /\ storeLog = <<>>
  /\ shimLog = <<>>
  /\ scriptLog = <<>>
  /\ events = <<>>
  /\ run = 1
  /\ first = NoFirst

\* path: the nameVersion of each entry of depPath
Event(what, nv) ==
  [ev |-> what, nv |-> nv, depth |-> Len(stack),
   path |-> [k \in 1..Len(stack) |-> stack[k].dep.nameVersion]]

\* an exception nothing catches: main() is rejected
Throw(e) == pc' = "aborted" /\ error' = e

\* the visit of the top frame returns to the loop of its caller
ReturnFrom(stk) ==
  /\ stack' = SubSeq(stk, 1, Len(stk) - 1)
  /\ pc' = IF Len(stk) = 1 THEN "summary" ELSE "recurse"

(***************************************************************************)
(* main(): index.js:203-222, 604                                           *)
(***************************************************************************)
Main ==
  /\ pc = "main"
  /\ IF Walker = "null"
     THEN /\ Throw("TypeError: walk_deps is not a function")
          /\ UNCHANGED stack
     ELSE /\ stack' = <<Frame(RootDepOf(Walker, rootPkgId), RootNode)>>
          /\ pc' = "enter"
          /\ error' = error
  /\ UNCHANGED <<inputs, earlier, binLog, doneUnpack, doneScripts, fs, shimList, plans, unpackLog,
                 linkLog, storeLog, shimLog, scriptLog, events>>

(***************************************************************************)
(* enter(), first part: index.js:223-251 and the layout of 416-441         *)
(***************************************************************************)

\* index.js:224-228
IsRemovedOptional(dep) ==
  /\ dep.version = <<>>
  /\ dep.resolved = <<>>
  /\ dep.nameVersion # <<"package.json", "@">>

\* index.js:243, 424
Named(dep) ==
  LET nv == NameVersionOf(dep.name, dep.version)
  IN [dep EXCEPT !.nameVersion = nv]

\* a layout that unpacks a nested dependency below its parent
PlanOf_NestedCopy(dep, parent, rootDep) ==
  [dep_path   |-> DepPathOf(dep, IF rootDep THEN <<>> ELSE parent.nameVersionStore, rootDep),
   dep_target |-> DepTargetOf(dep, rootDep),
   dep_store  |-> IF rootDep THEN DepStoreOf(dep)
                  ELSE Cat(<<NM, SL, store_dir, SL, parent.nameVersionStore, SL, NM, SL,
                             dep.name>>)]

\* index.js:416-441
PlanOf(dep, parent, rootDep) ==
  [dep_path   |-> DepPathOf(dep, IF rootDep THEN <<>> ELSE parent.nameVersionStore, rootDep),
   dep_target |-> DepTargetOf(dep, rootDep),
   dep_store  |-> DepStoreOf(dep)]

Enter ==
  /\ pc = "enter"
  /\ LET dep == Top.dep IN
     IF IsRemovedOptional(dep)
     THEN /\ ReturnFrom(stack)
          /\ events' = Append(events, Event("skipped", dep.nameVersion))
          /\ UNCHANGED plans
     ELSE LET d1 == Named(dep) IN
          IF isRootPkg
          THEN /\ stack' = [stack EXCEPT ![Len(stack)].dep = d1]
               /\ pc' = "recurse"
               /\ events' = Append(events, Event("start", d1.nameVersion))
               /\ UNCHANGED plans
          ELSE LET n  == Len(stack)
                   p0 == stack[n - 1].dep
                   \* index.js:418-421
                   p1 == IF isRootDep THEN p0
                         ELSE [Named(p0) EXCEPT
                                 !.nameVersionStore = NameVersionStoreOf(Named(p0).nameVersion)]
                   d2 == [d1 EXCEPT !.nameVersionStore = NameVersionStoreOf(d1.nameVersion)]
                   plan == PlanOf(d2, p1, isRootDep)
               IN /\ stack' = [stack EXCEPT ![n].dep = d2, ![n].plan = plan, ![n - 1].dep = p1]
                  /\ pc' = "materialize"
                  /\ events' = Append(events, Event("start", d2.nameVersion))
                  /\ plans' = plans \cup
                       {[nameVersion |-> d2.nameVersion, name |-> d2.name, depth |-> n,
                         parent |-> p1.nameVersion, plan |-> plan]}
  /\ error' = error
  /\ UNCHANGED <<inputs, earlier, binLog, doneUnpack, doneScripts, fs, shimList, unpackLog, linkLog, storeLog,
                 shimLog, scriptLog>>

(***************************************************************************)
(* What may be on disk before the run, per kind of path                    *)
(***************************************************************************)

Nowhere == <<"/", "nowhere">>

PreStore ==
  IF emptyStart THEN {Absent}
  ELSE {Absent, LinkTo(<<"/", "ext", "/", "d">>), LinkTo(Nowhere)}

PreLink(target) ==
  IF emptyStart THEN {Absent}
  ELSE {Absent, LinkTo(target), LinkTo(<<"/", "ext", "/", "other">>), LinkTo(Nowhere),
        DirOf(<<>>)}

PrePkgDir(nv) ==
  IF emptyStart THEN {Absent} ELSE {Absent, DirOf(nv)}

(***************************************************************************)
(* unpack(archive, to): index.js:24-34                                     *)
(***************************************************************************)
TestPkgMinimistTarPath == <<".", "/", "src", "/", "test_materials", "/", "proxy-from-env-1.1.0.tgz">>

\* the package an archive holds; <<>> when tar finds no archive to extract
\* (its exit status is not looked at: index.js:27-33)
ContentOf(archive, nv) ==
  CASE archive = TestPkgMinimistTarPath -> Fix
    [] archive = MissingArchive         -> <<>>
    [] OTHER                            -> nv

\* mkdir(to), then tar -x -C to
unpack(f, archive, to, nv) == Put(f, PathKey(to), DirOf(ContentOf(archive, nv)))

UnpackCall(archive, to, nv) == [archive |-> archive, to |-> to, nameVersion |-> nv]

(***************************************************************************)
(* enter(), the source resolver: index.js:443-471                          *)
(***************************************************************************)

Materialize ==
  /\ pc = "materialize"
  /\ LET dep == Top.dep
         plan == Top.plan
         sk == PathKey(plan.dep_store)
     IN
     IF StartsWith(dep.resolved, <<"file://">>)
     THEN LET tgzpath == SliceFrom(dep.resolved, 1) IN
          IF ~IsAbsolute(tgzpath)
          THEN /\ Throw("invalid tarfile path")
               /\ UNCHANGED <<fs, unpackLog, storeLog, doneUnpack>>
          ELSE /\ fs' = unpack(fs, tgzpath, plan.dep_store, dep.nameVersion)
               /\ UNCHANGED storeLog
               /\ unpackLog' = Append(unpackLog,
                                      UnpackCall(tgzpath, plan.dep_store, dep.nameVersion))
               /\ doneUnpack' = doneUnpack \cup {dep.nameVersion}
               /\ pc' = "link"
               /\ error' = error
     ELSE \E pre \in PreStore :
          LET mirror == ~IsAbsolute(dep.resolved) /\ dep.resolved = MirrorUrl
              f0 == IF mirror
                    THEN unpack(fs, TestPkgMinimistTarPath, plan.dep_target, dep.nameVersion)
                    ELSE fs
              f1 == Obs(f0, sk, pre)
          IN /\ fs' = f1
             /\ storeLog' = Append(storeLog,
                  [nameVersion |-> dep.nameVersion, resolved |-> dep.resolved,
                   store |-> plan.dep_store, before |-> EntryAt(f1, sk),
                   existed |-> Exists(f1, sk), after |-> EntryAt(f1, sk)])
             /\ unpackLog' = IF mirror
                             THEN Append(unpackLog, UnpackCall(TestPkgMinimistTarPath,
                                                               plan.dep_target, dep.nameVersion))
                             ELSE unpackLog
             /\ IF ~Exists(f1, sk) /\ dep.resolved = MirrorUrl /\ EntryAt(f1, sk).k = "absent"
                THEN \* fs.lstatSync(dep_store) of index.js:464
                     /\ Throw("ENOENT: lstat dep_store")
                     /\ UNCHANGED doneUnpack
                ELSE /\ doneUnpack' = doneUnpack \cup {dep.nameVersion}
                     /\ pc' = "link"
                     /\ error' = error
  /\ UNCHANGED <<inputs, earlier, binLog, stack, doneScripts, shimList, plans, linkLog, shimLog, scriptLog,
                 events>>

(***************************************************************************)
(* enter(), the link of the dependency: index.js:473-489                   *)
(***************************************************************************)

\* the outcome of the link step on entry `cur` at dep_path
\* (exists: fs.existsSync(dep_path)); "ok" when the visit goes on
LinkOutcome(cur, exists, dep_target) ==
  IF ~exists
  THEN \* index.js:476: lstatSync throws on a missing path; on a dangling link
       \* `.isSymbolicLink` is a function, so nothing is created
       IF cur.k = "absent" THEN "ENOENT" ELSE "ok"
  ELSE \* index.js:481-488
       IF cur.k # "link" THEN "EINVAL"
       ELSE IF cur.target # dep_target THEN "collision"
       ELSE "ok"

\* a visitor that runs the scripts of a nested dependency before its children
AfterLinkStep_ScriptsFirst(rootDep) == IF rootDep THEN "bins" ELSE "scripts"

\* where enter goes on after the link step: the binaries of a root
\* dependency (index.js:491), else `await recurse()` (index.js:537)
AfterLinkStep(rootDep) == IF rootDep THEN "bins" ELSE "recurse"

EnsureLink ==
  /\ pc = "link"
  /\ LET dep == Top.dep
         plan == Top.plan
         lk == PathKey(plan.dep_path)
     IN \E pre \in PreLink(plan.dep_target) :
        LET f1 == Obs(fs, lk, pre)
            cur == EntryAt(f1, lk)
            ex == Exists(f1, lk)
            out == LinkOutcome(cur, ex, plan.dep_target)
        IN /\ fs' = f1
           /\ linkLog' = Append(linkLog,
                [path |-> plan.dep_path, target |-> plan.dep_target, before |-> cur,
                 existed |-> ex, after |-> EntryAt(f1, lk), outcome |-> out,
                 nameVersion |-> dep.nameVersion, depth |-> Len(stack)])
           /\ IF out = "ok"
              THEN /\ pc' = AfterLinkStep(isRootDep)
                   /\ error' = error
              ELSE Throw(out)
  /\ UNCHANGED <<inputs, earlier, binLog, stack, doneUnpack, doneScripts, shimList, plans, unpackLog,
                 storeLog, shimLog, scriptLog, events>>

(***************************************************************************)
(* enter(), the binaries of a root dependency: index.js:491-534            *)
(***************************************************************************)

BinDir == <<"node_modules", "/", ".bin">>

PreBin(target) ==
  IF emptyStart THEN {Absent}
  ELSE {Absent, LinkTo(target), LinkTo(<<"/", "ext", "/", "bin">>), FileOf(<<"wrapper">>)}

\* index.js:494
DepStoreRelOf(dep) == Cat(<<store_dir, SL, dep.nameVersionStore, SL, NM, SL, dep.name>>)

\* the (binName, file) pairs of pkg.bin: index.js:499-501, 516-519
BinItems(dep, bin) ==
  CASE bin.kind = "string" -> <<[name |-> dep.name, file |-> bin.files[1]]>>
    [] bin.kind = "object" -> [i \in 1..Len(bin.names) |->
                                 [name |-> bin.names[i], file |-> bin.files[i]]]
    [] OTHER               -> <<>>

BinLinkPath(item) == Cat(<<BinDir, SL, item.name>>)
BinLinkTarget(dep, item) == Cat(<<DepStoreRelOf(dep), SL, item.file>>)

\* what one pass of the loop body does with the entry `cur` at linkPath
\* (exists: fs.existsSync(linkPath)): index.js:502-514 and 520-531
BinOutcome(cur, exists, target) ==
  IF ~exists
  THEN \* symlink(linkTarget, linkPath): index.js:36-40
       IF cur.k = "absent" THEN "created" ELSE "EEXIST"
  ELSE \* fs.readlinkSync(linkPath): index.js:507, 525
       IF cur.k # "link" THEN "EINVAL"
       ELSE IF cur.target # target THEN "warned"
       ELSE "kept"

\* one pass of the loop body
\* r = [fs, err, log]; pre: what was at the path before the run
BinStep(r, dep, item, pre) ==
  LET key == PathKey(BinLinkPath(item))
      target == BinLinkTarget(dep, item)
      f1 == Obs(r.fs, key, pre)
      cur == EntryAt(f1, key)
      out == BinOutcome(cur, Exists(f1, key), target)
      f2 == IF out = "created" THEN Put(f1, key, LinkTo(target)) ELSE f1
  IN IF r.err # "none" THEN r
     ELSE [fs |-> f2,
           err |-> IF out \in {"EEXIST", "EINVAL"} THEN out ELSE "none",
           log |-> Append(r.log, [nameVersion |-> dep.nameVersion, name |-> item.name,
                                  target |-> target, before |-> cur,
                                  after |-> EntryAt(f2, key), outcome |-> out])]

RECURSIVE BinLoop(_, _, _, _, _)
BinLoop(r, dep, items, pres, i) ==
  IF i > Len(items) THEN r
  ELSE BinLoop(BinStep(r, dep, items[i], pres[i]), dep, items, pres, i + 1)

\* json(`${dep_target}/package.json`): the package found at dep_target, seen
\* from the working directory; <<>> when there is no such file
PackageAt(f, dep_target) ==
  LET e == EntryAt(f, PathKey(dep_target))
  IN IF e.k = "dir" THEN e.pkg ELSE <<>>

InstallBins ==
  /\ pc = "bins"
  /\ LET dep == Top.dep
         plan == Top.plan
     IN \E pre \in PrePkgDir(dep.nameVersion) :
        LET f1 == Obs(fs, PathKey(plan.dep_target), pre)
            pkg == PackageAt(f1, plan.dep_target)
        IN IF pkg = <<>>
           THEN /\ fs' = f1
                /\ Throw("ENOENT: package.json")
                /\ UNCHANGED binLog
           ELSE LET items == BinItems(dep, ManifestOf(pkg).bin) IN
                \E pres \in [1..Len(items) -> UNION {PreBin(BinLinkTarget(dep, items[i])) :
                                                       i \in 1..Len(items)}] :
                  /\ \A i \in 1..Len(items) : pres[i] \in PreBin(BinLinkTarget(dep, items[i]))
                  /\ LET r == BinLoop([fs |-> f1, err |-> "none", log |-> <<>>],
                                      dep, items, pres, 1)
                     IN /\ fs' = r.fs
                        /\ binLog' = binLog \o r.log
                        /\ IF r.err = "none"
                           THEN pc' = "recurse" /\ error' = error
                           ELSE Throw(r.err)
  /\ UNCHANGED <<inputs, earlier, stack, doneUnpack, doneScripts, shimList, plans, unpackLog,
                 linkLog, storeLog, shimLog, scriptLog, events>>

(***************************************************************************)
(* recurse(): index.js:117-146 (graph), 169-178 (tree)                     *)
(***************************************************************************)

\* a walker that skips every identity some earlier visit has unpacked
OnPath_Seen(walker, stk, childNodeId) ==
  IF walker = "graph"
  THEN \/ \E k \in 1..Len(stk) : stk[k].dep.nameVersion = childNodeId
       \/ childNodeId \in doneUnpack
  ELSE \E k \in 1..(Len(stk) - 1) : stk[k].dep.name = NameOfChildId(childNodeId)

\* is the child already on the path? index.js:120, 171
OnPath(walker, stk, childNodeId) ==
  IF walker = "graph"
  THEN \E k \in 1..Len(stk) : stk[k].dep.nameVersion = childNodeId
  ELSE \E k \in 1..(Len(stk) - 1) : stk[k].dep.name = NameOfChildId(childNodeId)

Recurse ==
  /\ pc = "recurse"
  /\ LET deps == G[Top.node]
         i == Top.i
         n == Len(stack)
     IN IF i > Len(deps)
        THEN \* the loop is over: back in enter, after `await recurse()`
             /\ pc' = IF isRootPkg THEN "shim" ELSE "scripts"
             /\ UNCHANGED stack
        ELSE IF OnPath(Walker, stack, deps[i])
        THEN /\ stack' = [stack EXCEPT ![n].i = i + 1]
             /\ pc' = "recurse"
        ELSE /\ stack' = Append([stack EXCEPT ![n].i = i + 1],
                                Frame(ChildDepOf(Walker, deps[i]), deps[i]))
             /\ pc' = "enter"
  /\ UNCHANGED <<inputs, earlier, binLog, doneUnpack, doneScripts, fs, shimList, error, plans, unpackLog,
                 linkLog, storeLog, shimLog, scriptLog, events>>

(***************************************************************************)
(* enter(), lifecycle scripts of a dependency: index.js:563-602            *)
(***************************************************************************)

\* index.js:240
ignoreScripts == TRUE

DepScriptNames == <<"preinstall", "install", "postinstall">>

RootScriptNames == <<"preinstall", "install", "postinstall", "prepublish", "preprepare",
                     "prepare", "postprepare">>

\* the scripts of `names` spawned in order, up to and including the first
\* one that exits non-zero when `stopOnFail` (index.js:571-598, 401-406)
RECURSIVE SpawnedOf(_, _, _, _)
SpawnedOf(names, declared, failing, stopOnFail) ==
  IF names = <<>> THEN <<>>
  ELSE LET h == Head(names) IN
       IF h \notin declared THEN SpawnedOf(Tail(names), declared, failing, stopOnFail)
       ELSE IF stopOnFail /\ h = failing THEN <<h>>
       ELSE <<h>> \o SpawnedOf(Tail(names), declared, failing, stopOnFail)

ScriptRun(nv, names) == [i \in 1..Len(names) |-> [nameVersion |-> nv, script |-> names[i]]]

Scripts ==
  /\ pc = "scripts"
  /\ LET dep == Top.dep
         plan == Top.plan
     IN
     IF dep.nameVersion \in doneScripts
     THEN /\ ReturnFrom(stack)
          /\ events' = Append(events, Event("end", dep.nameVersion))
          /\ error' = error
          /\ UNCHANGED <<fs, doneScripts, scriptLog>>
     ELSE \E pre \in PrePkgDir(dep.nameVersion) :
          LET f1 == Obs(fs, PathKey(plan.dep_target), pre)
              pkg == PackageAt(f1, plan.dep_target)
          IN /\ fs' = f1
             /\ IF pkg = <<>>
                THEN /\ Throw("ENOENT: package.json")
                     /\ UNCHANGED <<stack, doneScripts, scriptLog, events>>
                ELSE IF ignoreScripts = FALSE /\ ManifestOf(pkg).scripts # {}
                THEN \E failing \in {"none"} \cup ManifestOf(pkg).scripts :
                     LET ran == SpawnedOf(DepScriptNames, ManifestOf(pkg).scripts, failing, TRUE)
                     IN /\ scriptLog' = scriptLog \o ScriptRun(dep.nameVersion, ran)
                        /\ IF ran # <<>> /\ ran[Len(ran)] = failing
                           THEN /\ Throw("ERROR in script")
                                /\ UNCHANGED <<stack, doneScripts, events>>
                           ELSE /\ doneScripts' = doneScripts \cup {dep.nameVersion}
                                /\ ReturnFrom(stack)
                                /\ events' = Append(events, Event("end", dep.nameVersion))
                                /\ error' = error
                ELSE /\ doneScripts' = doneScripts \cup {dep.nameVersion}
                     /\ ReturnFrom(stack)
                     /\ events' = Append(events, Event("end", dep.nameVersion))
                     /\ error' = error
                     /\ UNCHANGED scriptLog
  /\ UNCHANGED <<inputs, earlier, binLog, doneUnpack, shimList, plans, unpackLog, linkLog, storeLog, shimLog>>

(***************************************************************************)
(* enter() of the root package: binaries patched (index.js:257-395),       *)
(* then the root's lifecycle scripts (397-410)                             *)
(***************************************************************************)

StaleBin == PathKey(Cat(<<BinDir, SL, <<"old">>>>))

\* what may be at node_modules/.bin/old before the run
PreStale ==
  IF emptyStart THEN {Absent}
  ELSE {Absent, LinkTo(Nowhere), LinkTo(<<"/", "ext", "/", "old">>), FileOf(<<"wrapper">>)}

\* fs.readdirSync('node_modules/.bin')
BinEntries(f) ==
  {k \in DOMAIN f : /\ ~k.abs
                    /\ Len(k.segs) = Len(StaleBin.segs)
                    /\ SubSeq(k.segs, 1, Len(k.segs) - 1) = SubSeq(StaleBin.segs, 1, Len(k.segs) - 1)
                    /\ f[k].k # "absent"}

ShimStart ==
  /\ pc = "shim"
  /\ \E pre \in PreStale :
       LET f1 == Obs(fs, StaleBin, pre) IN
       /\ fs' = f1
       /\ shimList' = BinEntries(f1)
  /\ pc' = "shimloop"
  /\ events' = Append(events, Event("shim", Top.dep.nameVersion))
  /\ UNCHANGED <<inputs, earlier, binLog, stack, doneUnpack, doneScripts, error, plans, unpackLog, linkLog,
                 storeLog, shimLog, scriptLog>>

(***************************************************************************)
(* parseShebang(fileText): index.js:42-60.  A file text is a sequence of   *)
(* tokens: "#!", the white space " " and "\n", "/", "-S", and words.       *)
(***************************************************************************)

IsSpace(t) == t \in {" ", "\t", "\n"}

\* str.trimRight()
RECURSIVE TrimRight(_)
TrimRight(str) ==
  IF str # <<>> /\ IsSpace(str[Len(str)]) THEN TrimRight(SubSeq(str, 1, Len(str) - 1)) ELSE str

\* fileText.slice(0, firstLineEnd).trimRight(): index.js:53-55
FirstLineOf(fileText) ==
  LET I == {i \in 1..Len(fileText) : fileText[i] = "\n"}
      firstLineEnd == IF I = {} THEN Len(fileText)
                      ELSE (CHOOSE i \in I : \A k \in I : i <= k) - 1
  IN TrimRight(SubSeq(fileText, 1, firstLineEnd))

\* the first position from i on that holds no white space (\s*)
RECURSIVE SkipSpaces(_, _)
SkipSpaces(str, i) ==
  IF i <= Len(str) /\ IsSpace(str[i]) THEN SkipSpaces(str, i + 1) ELSE i

\* the first position from i on that holds white space, or the end (\S+)
RECURSIVE WordEnd(_, _)
WordEnd(str, i) ==
  IF i <= Len(str) /\ ~IsSpace(str[i]) THEN WordEnd(str, i + 1) ELSE i

EnvPath == <<"/", "usr", "/", "bin", "/", "env">>

\* `return null` of index.js:57
NoShebang == [arg0 |-> <<>>, args |-> <<>>]

\* \/usr\/bin\/env\s+ matches at position a of the line
EnvAt(firstLine, a) ==
  /\ a + Len(EnvPath) <= Len(firstLine)
  /\ SubSeq(firstLine, a, a + Len(EnvPath) - 1) = EnvPath
  /\ IsSpace(firstLine[a + Len(EnvPath)])

\* the position after (?:\/usr\/bin\/env\s+(?:-S)?)?\s* tried at position a;
\* (?:-S)? is taken when \S+ still finds something after it
AfterEnv(firstLine, a) ==
  IF ~EnvAt(firstLine, a) THEN a
  ELSE LET b == SkipSpaces(firstLine, a + Len(EnvPath))
       IN IF /\ b <= Len(firstLine)
             /\ firstLine[b] = "-S"
             /\ SkipSpaces(firstLine, b + 1) <= Len(firstLine)
          THEN SkipSpaces(firstLine, b + 1)
          ELSE b

\* (\S+)(.*)$ at position c
WordAndRest(firstLine, c) ==
  IF c > Len(firstLine) THEN NoShebang
  ELSE [arg0 |-> SubSeq(firstLine, c, WordEnd(firstLine, c) - 1),
        args |-> SubSeq(firstLine, WordEnd(firstLine, c), Len(firstLine))]

\* /^#!\s*(?:\/usr\/bin\/env\s+(?:-S)?)?\s*(\S+)(.*)$/ on the first line
parseShebang(fileText) ==
  LET firstLine == FirstLineOf(fileText) IN
  IF ~StartsWith(firstLine, <<"#!">>) THEN NoShebang
  ELSE WordAndRest(firstLine, AfterEnv(firstLine, SkipSpaces(firstLine, 2)))

(***************************************************************************)
(* The wrapper script of a binary: index.js:281-388.  Of its lines the     *)
(* model keeps the ones appended at 353-388, which execute the target.     *)
(***************************************************************************)

\* str.split("/node_modules/")[0]
RECURSIVE BeforeNodeModules(_)
BeforeNodeModules(str) ==
  IF str = <<>> \/ StartsWith(str, <<"/", "node_modules", "/">>) THEN <<>>
  ELSE <<Head(str)>> \o BeforeNodeModules(Tail(str))

\* linkTargetParts[0].split("/")[1]: index.js:290
PkgStoreNameOf(linkTarget) ==
  LET parts == Segments(BeforeNodeModules(linkTarget), <<>>)
  IN IF Len(parts) >= 2 THEN parts[2] ELSE Undefined

\* linkTarget.replace(/\/(?:\.\/)+/g, "/"): index.js:295
RECURSIVE CleanDots(_)
CleanDots(str) ==
  IF str = <<>> THEN <<>>
  ELSE IF StartsWith(str, <<"/", ".", "/">>) THEN CleanDots(Tail(Tail(str)))
  ELSE <<Head(str)>> \o CleanDots(Tail(str))

\* linkTargetShell: index.js:300-309
LinkTargetShellOf(linkTarget) ==
  LET pkgStoreName == PkgStoreNameOf(linkTarget)
      linkTargetClean == CleanDots(linkTarget)
      inPkg == Cat(<< <<"..", "/", ".pnpm", "/">>, pkgStoreName, <<"/", "node_modules">> >>)
  IN IF StartsWith(linkTargetClean, Append(inPkg, "/"))
     THEN <<"$n">> \o SliceFrom(linkTargetClean, Len(inPkg))
     ELSE IF StartsWith(linkTargetClean, <<"..", "/", ".pnpm", "/">>)
     THEN <<"$p">> \o SliceFrom(linkTargetClean, 3)
     ELSE IF StartsWith(linkTargetClean, <<"/">>) THEN linkTargetClean
     ELSE <<"$b", "/">> \o linkTargetClean

\* ` "${linkTargetShell}" "$@"`
TargetAndArgs(linkTargetShell) == <<" ", "\"">> \o linkTargetShell \o <<"\"", " ", "\"$@\"">>

\* `exec "${linkTargetShell}" "$@"`: index.js:355
ExecPlain(linkTargetShell) == <<"exec">> \o TargetAndArgs(linkTargetShell)

\* `exec ${arg0}${args} "${linkTargetShell}" "$@"`: index.js:361
ExecAbsolute(arg0, args, linkTargetShell) ==
  <<"exec", " ">> \o arg0 \o args \o TargetAndArgs(linkTargetShell)

\* the lines pushed at index.js:369-386
ExecEnv(arg0, args, arg0Path, linkTargetShell) ==
  << <<"[", " ", "-x", " ", "\"", "$b", "/">> \o arg0 \o <<"\"", " ", "]", " ", "&&">>,
     <<"exec", " ", "\"", "$b", "/">> \o arg0 \o <<"\"">> \o TargetAndArgs(linkTargetShell),
     <<>>,
     <<"exec", " ", "\"">> \o arg0Path \o <<"\"">> \o TargetAndArgs(linkTargetShell) >>

\* await which(arg0Name), when the name is found in $PATH
WhichPath(arg0Name) == <<"/", "usr", "/", "bin", "/">> \o arg0Name

\* the lines appended to wrapperScriptLines at index.js:353-388
ExecLinesOf(shebang, linkTarget) ==
  LET linkTargetShell == LinkTargetShellOf(linkTarget) IN
  IF shebang = NoShebang THEN <<ExecPlain(linkTargetShell)>>
  ELSE IF shebang.arg0[1] = "/"
  THEN <<ExecAbsolute(shebang.arg0, shebang.args, linkTargetShell)>>
  ELSE ExecEnv(shebang.arg0, shebang.args, WhichPath(shebang.arg0), linkTargetShell)

\* what the file behind an entry of node_modules/.bin starts with
ShSh      == <<"#!", "/", "bin", "/", "sh", "\n", "echo">>
ShNode    == <<"#!", "/", "usr", "/", "bin", "/", "node", "\n", "main()">>
ShEnvBash == <<"#!", " ", "/", "usr", "/", "bin", "/", "env", " ", "bash", "\n", "echo">>
ShEnvNode == <<"#!", " ", "/", "usr", "/", "bin", "/", "env", " ", "-S", " ", "node", " ",
               "--experimental", "\n", "main()">>
ShNone    == <<"main()", "\n">>

FileTexts == {ShSh, ShNode, ShEnvBash, ShEnvNode, ShNone}

\* a loop that writes the wrapper also when which() finds no interpreter
ShimOutcome_Fallback(f, key, shebang, found) ==
  IF ~Exists(f, key) THEN "ENOENT"
  ELSE IF EntryAt(f, key).k # "link" THEN "EINVAL"
  ELSE "ok"

\* one pass of the loop of index.js:266-395; `found`: which(arg0) finds it
ShimOutcome(f, key, shebang, found) ==
  IF ~Exists(f, key) THEN "ENOENT"                         \* fs.openSync: 274
  ELSE IF EntryAt(f, key).k # "link" THEN "EINVAL"          \* fs.readlinkSync: 281
  ELSE IF shebang # NoShebang /\ shebang.arg0[1] # "/" /\ ~found
       THEN "not found"                                     \* which: 368
  ELSE "ok"

\* the file fs.openSync(binPath) opens: the entry, or what its link names
OpenedFile(f, key) ==
  LET e == EntryAt(f, key)
  IN IF e.k = "link" THEN ResolveLink(key, e.target) ELSE key

\* parseShebang of each file text
ShebangOf == [text \in FileTexts |-> parseShebang(text)]

\* the names node_modules/.bin can hold, in the order fs.readdirSync lists
\* them (sorted by name)
BinNames == << <<"old">>, <<"pkgA">>, <<"tool">> >>

\* binNameList[0] of what is left of the list
NextBin(list) ==
  LET rank(key) == CHOOSE r \in 1..Len(BinNames) : BinNames[r] = key.segs[Len(key.segs)]
  IN CHOOSE key \in list : \A other \in list : rank(key) <= rank(other)

\* is the name in $PATH, when which() first looks for it
InPath == {Absent, FileOf(<<"executable">>)}

\* the pass of the loop for entry `key`, the file behind it holding `text`
\* when first read and $PATH holding `bin` when first searched
ShimPass(key, text, bin) ==
  LET opened == OpenedFile(fs, key)
      isLink == Exists(fs, key) /\ EntryAt(fs, key).k = "link"
      \* index.js:274-279
      f1 == IF isLink THEN Obs(fs, opened, FileOf(text)) ELSE fs
      shebang == IF isLink THEN ShebangOf[EntryAt(f1, opened).pkg] ELSE NoShebang
      \* index.js:368
      searched == shebang # NoShebang /\ shebang.arg0[1] # "/"
      f2 == IF searched THEN Obs(f1, PathKey(WhichPath(shebang.arg0)), bin) ELSE f1
      found == searched /\ EntryAt(f2, PathKey(WhichPath(shebang.arg0))).k # "absent"
      out == ShimOutcome(fs, key, shebang, found)
      lines == IF out = "ok" THEN ExecLinesOf(shebang, EntryAt(fs, key).target) ELSE <<>>
  IN /\ shimLog' = Append(shimLog, [key |-> key, before |-> EntryAt(fs, key),
                                    fileText |-> IF isLink THEN EntryAt(f1, opened).pkg
                                                 ELSE <<>>,
                                    shebang |-> shebang, outcome |-> out, lines |-> lines])
     /\ IF out = "ok"
        THEN \* unlinkSync, writeFileSync: index.js:391-393
             /\ fs' = Put(f2, key, FileOf(lines))
             /\ shimList' = shimList \ {key}
             /\ pc' = pc
             /\ error' = error
        ELSE /\ Throw(out)
             /\ fs' = f2
             /\ UNCHANGED shimList

ShimEntry ==
  /\ pc = "shimloop"
  /\ shimList # {}
  /\ LET key == NextBin(shimList) IN
       IF ~Exists(fs, key) \/ EntryAt(fs, key).k # "link"
       THEN ShimPass(key, ShNone, Absent)
       ELSE \E text \in (IF OpenedFile(fs, key) \in DOMAIN fs THEN {ShNone} ELSE FileTexts) :
              LET shebang == ShebangOf[EntryAt(Obs(fs, OpenedFile(fs, key), FileOf(text)),
                                               OpenedFile(fs, key)).pkg]
              IN IF shebang = NoShebang \/ shebang.arg0[1] = "/"
                    \/ PathKey(WhichPath(shebang.arg0)) \in DOMAIN fs
                 THEN ShimPass(key, text, Absent)
                 ELSE \E bin \in InPath : ShimPass(key, text, bin)
  /\ UNCHANGED <<inputs, earlier, binLog, stack, doneUnpack, doneScripts, plans, unpackLog, linkLog, storeLog,
                 scriptLog, events>>

\* scripts of the root package.json
RootScriptsDeclared == {"install", "prepare", "test"}

RootScripts ==
  /\ pc = "shimloop"
  /\ shimList = {}
  /\ LET dep == Top.dep IN
     /\ IF ignoreScripts = FALSE
        THEN scriptLog' = scriptLog \o
               ScriptRun(dep.nameVersion,
                         SpawnedOf(RootScriptNames, RootScriptsDeclared, "none", FALSE))
        ELSE UNCHANGED scriptLog
     /\ events' = events \o <<Event("shimmed", dep.nameVersion), Event("end", dep.nameVersion)>>
  /\ ReturnFrom(stack)
  /\ UNCHANGED <<inputs, earlier, binLog, doneUnpack, doneScripts, fs, shimList, error, plans, unpackLog,
                 linkLog, storeLog, shimLog>>

(***************************************************************************)
(* main(), after the walk: index.js:606-609                                *)
(***************************************************************************)
Summary ==
  /\ pc = "summary"
  /\ pc' = "done"
  /\ UNCHANGED <<inputs, earlier, binLog, stack, doneUnpack, doneScripts, fs, shimList, error, plans,
                 unpackLog, linkLog, storeLog, shimLog, scriptLog, events>>

(***************************************************************************)
(* The program started again (index.js:612) in the same working directory, *)
(* on the same package.json and lock file: the disk is as the run before   *)
(* left it, the sets of index.js:217-218 are new.  The history variables   *)
(* start again with the run they describe.                                 *)
(***************************************************************************)
\* a second run is followed on the first MaxRerunGraph graphs
MaxRerunGraph == 2

Rerun ==
  /\ run = 1
  /\ graph <= MaxRerunGraph
  /\ pc \in {"done", "aborted"}
  /\ run' = 2
  /\ first' = [ended |-> pc, error |-> error, stack |-> stack, fs |-> fs]
  /\ pc' = "main"
  /\ stack' = <<>>
  /\ doneUnpack' = {}
  /\ doneScripts' = {}
  /\ shimList' = {}
  /\ error' = "none"
  /\ plans' = {}
  /\ unpackLog' = <<>>
  /\ linkLog' = <<>>
  /\ binLog' = <<>>
  /\ storeLog' = <<>>
  /\ shimLog' = <<>>
  /\ scriptLog' = <<>>
  /\ events' = <<>>
  /\ UNCHANGED <<inputs, fs>>

Next ==
  \/ Main
  \/ Enter
  \/ Materialize
  \/ EnsureLink
  \/ InstallBins
  \/ Recurse
  \/ Scripts
  \/ ShimStart
  \/ ShimEntry
  \/ RootScripts
  \/ Summary
  \/ Rerun

Spec == Init /\ [][Next]_vars

\* the walk is one thread of control: a step that can be taken is taken
FairSpec == Spec /\ WF_vars(Next)

(***************************************************************************)
(* Properties                                                              *)
(***************************************************************************)

RunEnded == pc \in {"done", "aborted"}

\* C1: flat store. At every visit the store directory computed for an
\* identity is node_modules/.pnpm/<name@version with "/" as "+">/node_modules/<name>,
\* and two visits of one identity, whatever their ancestor paths, compute
\* the same store directory.
C1_FlatStore ==
  \A r \in plans :
    /\ r.plan.dep_store =
         <<"node_modules", "/", ".pnpm", "/">> \o EscapeSlash(r.nameVersion)
           \o <<"/", "node_modules", "/">> \o r.name
    /\ \A q \in plans :
         q.nameVersion = r.nameVersion => q.plan.dep_store = r.plan.dep_store

\* C1 witness: one identity visited as a root dependency and as a nested
\* dependency, with different link paths and link targets
C1_Witness ==
  \E r, q \in plans :
    /\ Walker = "graph"
    /\ r.nameVersion = Scoped
    /\ r.nameVersion = q.nameVersion
    /\ r.depth = 2 /\ q.depth > 2
    /\ r.plan.dep_path # q.plan.dep_path
    /\ r.plan.dep_target # q.plan.dep_target

\* C2: within one run no store directory is extracted into twice: an
\* identity already in unpacked is not materialized again.
C2_ExtractedOnce ==
  \A i, j \in 1..Len(unpackLog) :
    unpackLog[i].to = unpackLog[j].to => i = j

TimesRun(nv, script) ==
  Cardinality({i \in 1..Len(scriptLog) :
                 scriptLog[i] = [nameVersion |-> nv, script |-> script]})

\* C3: every identity in scripted has had each of the scripts preinstall,
\* install, postinstall that its package.json declares run exactly once.
C3_ScriptsExactlyOnce ==
  \A nv \in doneScripts :
    \A k \in 1..Len(DepScriptNames) :
      DepScriptNames[k] \in ManifestOf(nv).scripts => TimesRun(nv, DepScriptNames[k]) = 1

\* a node the lock file marks as a removed optional dependency
IsRemovedNode(id) == VersionOfId(id) = <<>> /\ ResolvedOf(id) = <<>>

\* the children a node declares
ChildrenOf(node) == {G[node][k] : k \in 1..Len(G[node])}

EventsAt(what) == {i \in 1..Len(events) : events[i].ev = what}

\* visits of dependencies (not of the root package) started, finished
DepStarts == {i \in EventsAt("start") : events[i].depth > 1}
DepEnds   == {i \in EventsAt("end") \cup EventsAt("skipped") : events[i].depth > 1}

\* C5: a run that completes has generated the binary shims exactly once;
\* when shim generation begins every visit of a dependency that was started
\* has finished, none starts afterwards, and the root's lifecycle scripts
\* run only after shim generation has finished.
C5_RootOrdering ==
  /\ pc = "done" => Cardinality(EventsAt("shim")) = 1
  /\ \A s \in EventsAt("shim") :
       /\ Cardinality({i \in DepStarts : i < s}) = Cardinality({i \in DepEnds : i < s})
       /\ \A i \in DepStarts : i < s
  /\ \A k \in 1..Len(scriptLog) :
       scriptLog[k].nameVersion = rootPkgId => EventsAt("shimmed") # {}

\* C6: the chain root -> pkgA@1.0.0 -> pkgB@1.0.0 on an empty node_modules
\* ends without error, with node_modules/pkgA linked to the store entry of
\* pkgA, pkgB linked inside pkgA's private node_modules, and both
\* identities in unpacked and in scripted.
C6_EndToEnd ==
  (/\ G = Chain
   /\ emptyStart
   /\ rootPkgId = <<"proj", "@", "1.0.0">>
   /\ Walker # "null"
   /\ RunEnded)
  => /\ pc = "done"
     /\ error = "none"
     /\ EntryAt(fs, PathKey(<<"node_modules", "/", "pkgA">>)) =
          LinkTo(<<".pnpm", "/", "pkgA", "@", "1.0.0", "/", "node_modules", "/", "pkgA">>)
     /\ EntryAt(fs, PathKey(<<"node_modules", "/", ".pnpm", "/", "pkgA", "@", "1.0.0", "/",
                              "node_modules", "/", "pkgB">>)) =
          LinkTo(<<"..", "/", "..", "/", "pkgB", "@", "1.0.0", "/", "node_modules", "/", "pkgB">>)
     /\ {PkgA, PkgB} \subseteq doneUnpack
     /\ {PkgA, PkgB} \subseteq doneScripts

\* C7: a visit that finds nothing at its link path does not fail and leaves
\* there a symlink whose stored target is the computed link target.
C7_LinkCreatedWhenAbsent ==
  \A i \in 1..Len(linkLog) :
    linkLog[i].before.k = "absent"
      => /\ linkLog[i].outcome = "ok"
         /\ linkLog[i].after = LinkTo(linkLog[i].target)

\* C8: a visit that finds at its link path a symlink with another target,
\* dangling or not, fails with the symlink-collision error and leaves the
\* link as it was.
C8_CollisionDetected ==
  \A i \in 1..Len(linkLog) :
    (linkLog[i].before.k = "link" /\ linkLog[i].before.target # linkLog[i].target)
      => /\ linkLog[i].outcome = "collision"
         /\ linkLog[i].after = linkLog[i].before

\* C9: a link request (path, target) made where nothing is, or where the
\* link to that target already is, succeeds and leaves the link to target;
\* a request that repeats an earlier one of the run succeeds and changes
\* nothing.
C9_LinkIdempotent ==
  \A j \in 1..Len(linkLog) :
    /\ (linkLog[j].before.k = "absent" \/ linkLog[j].before = LinkTo(linkLog[j].target))
         => (linkLog[j].outcome = "ok" /\ linkLog[j].after = LinkTo(linkLog[j].target))
    /\ \A i \in 1..(j - 1) :
         (linkLog[i].path = linkLog[j].path /\ linkLog[i].target = linkLog[j].target
          /\ linkLog[i].outcome = "ok")
           => (linkLog[j].outcome = "ok" /\ linkLog[j].after = linkLog[j].before)

\* C10: the depth of the nested walk calls never exceeds the number of
\* distinct identities of the graph.
C10_DepthBounded ==
  Len(stack) <= Cardinality(IdentitiesOf(G, rootPkgId))

\* the name and version of a child are those of some node of the path
SameIdentityOnPath(stk, childNodeId) ==
  \E k \in 1..Len(stk) : /\ stk[k].dep.name = NameOfChildId(childNodeId)
                          /\ stk[k].dep.version = VersionOfId(childNodeId)

\* C11: in both walkers, a step of recurse() skips the child it looks at
\* exactly when the child's identity (name and version) is the identity of a
\* node on the current path, the current node included.
C11_CycleSuppression ==
  [][(pc = "recurse" /\ Top.i <= Len(G[Top.node]))
       => ((Len(stack') = Len(stack)) <=> SameIdentityOnPath(stack, G[Top.node][Top.i]))]_vars

\* the cycle-free paths from `node`, depth first, in pre-order, children in
\* their order; path: the identities from the root to `node`
RECURSIVE PreOrder(_, _, _)
PreOrder(g, node, path) ==
  LET Sub[k \in 0..Len(g[node])] ==
        IF k = 0 THEN <<>>
        ELSE LET c == g[node][k]
             IN Sub[k - 1] \o (IF \E j \in 1..Len(path) : path[j] = c
                               THEN <<>>
                               ELSE PreOrder(g, c, Append(path, c)))
  IN <<path>> \o Sub[Len(g[node])]

\* the paths the visitor was called with, in the order of the calls
Visits ==
  LET called == SelectSeq(events, LAMBDA e : e.ev \in {"start", "skipped"})
  IN [i \in 1..Len(called) |-> called[i].path]

\* C12: in the graph walker, as long as every visit has called recurse, the
\* paths the visitor was called with are the cycle-free paths from the root
\* in depth-first pre-order, children in their order, each once (all of them
\* once the run completes), and when a visit begins every earlier visit at
\* the same or a greater depth has completed.
C12_TraversalOrder ==
  (Walker = "graph" /\ EventsAt("skipped") = {})
  => LET expected == PreOrder(G, RootNode, <<rootPkgId>>) IN
     /\ Len(Visits) <= Len(expected)
     /\ \A i \in 1..Len(Visits) : Visits[i] = expected[i]
     /\ pc = "done" => Len(Visits) = Len(expected)
     /\ \A s \in EventsAt("start") :
          Cardinality({i \in EventsAt("start") : i < s /\ events[i].depth >= events[s].depth})
            = Cardinality({i \in EventsAt("end") : i < s /\ events[i].depth >= events[s].depth})

\* C12 witness: the diamond root -> [pkgA, pkgB], pkgA -> p, pkgB -> p,
\* p -> @s/c walked to the end by the graph walker: p and @s/c are visited
\* once below pkgA and once below pkgB
C12_Witness ==
  /\ Walker = "graph"
  /\ G = Diamond
  /\ pc = "done"
  /\ Len(Visits) = 7
  /\ Cardinality({i \in 1..Len(Visits) : Visits[i][Len(Visits[i])] = PkgP}) = 2

\* C13: a node of the lock file other than the root that has an empty
\* version and an empty resolved locator is never unpacked, never linked,
\* and is never in unpacked nor in scripted.
C13_OptionalSkipped ==
  \A nv \in NodeIds :
    IsRemovedNode(nv)
    => /\ nv \notin doneUnpack
       /\ nv \notin doneScripts
       /\ \A i \in 1..Len(unpackLog) : unpackLog[i].nameVersion # nv
       /\ \A i \in 1..Len(linkLog) : linkLog[i].nameVersion # nv

\* C14: the visit of the root package is never skipped as a removed
\* optional dependency, whatever the root's name and version.
C14_RootNeverSkipped ==
  \A i \in EventsAt("skipped") : events[i].depth > 1

\* C15: every identity in unpacked (removed-optional entries aside) has its
\* store directory on disk: a directory holding the extracted package, or
\* a symlink to the external directory of its locator.
C15_UnpackedIsOnDisk ==
  \A r \in plans :
    (r.nameVersion \in doneUnpack /\ ~IsRemovedNode(r.nameVersion))
    => LET e == EntryAt(fs, PathKey(r.plan.dep_store))
       IN \/ e.k = "dir" /\ e.pkg # <<>>
          \/ e.k = "link" /\ e.target = ResolvedOf(r.nameVersion)

\* C16: the resolver step of a dependency whose locator is an absolute
\* directory path leaves at the store directory a symlink to that directory
\* when the store directory did not exist, and leaves the store directory
\* as it was when it existed.
C16_DirectoryLocatorLinked ==
  \A i \in 1..Len(storeLog) :
    IsAbsolute(storeLog[i].resolved)
    => /\ ~storeLog[i].existed => storeLog[i].after = LinkTo(storeLog[i].resolved)
       /\ storeLog[i].existed => storeLog[i].after = storeLog[i].before

\* a file:// locator with an absolute archive path, or an absolute directory
ValidLocator(resolved) ==
  \/ StartsWith(resolved, <<"file://">>) /\ IsAbsolute(SliceFrom(resolved, 1))
  \/ IsAbsolute(resolved)

\* C17: a dependency that is not removed-optional and whose locator is
\* neither a file:// archive with an absolute path nor an absolute
\* directory is never unpacked, never in unpacked and never linked.
C17_InvalidLocatorRejected ==
  \A nv \in NodeIds :
    (~IsRemovedNode(nv) /\ ~ValidLocator(ResolvedOf(nv)))
    => /\ nv \notin doneUnpack
       /\ \A i \in 1..Len(unpackLog) : unpackLog[i].nameVersion # nv
       /\ \A i \in 1..Len(linkLog) : linkLog[i].nameVersion # nv

\* C18: lock version 1 walks with the tree walker, 2 and 3 with the graph
\* walker; with any other lock version the run visits nothing, writes
\* nothing, leaves unpacked empty and ends without error.
C18_LockVersionDispatch ==
  /\ lockfileVersion = 1 => Walker = "tree"
  /\ lockfileVersion \in {2, 3} => Walker = "graph"
  /\ lockfileVersion \notin {1, 2, 3}
     => /\ events = <<>> /\ unpackLog = <<>> /\ doneUnpack = {} /\ fs = EmptyFs
        /\ error = "none"
        /\ pc \in {"main", "summary", "done"}

\* ` "<target>" "$@"`, the end of an exec line of a wrapper
ExecTail(target) == <<" ", "\"">> \o target \o <<"\"", " ", "\"$@\"">>

\* the tokens of a line
TokensOf(line) == {line[k] : k \in 1..Len(line)}

\* C19: the wrapper written for a binary whose file starts with
\* "#!/bin/sh" ends in the single line exec "<target>" "$@"; with
\* "#!/usr/bin/node" in exec /usr/bin/node "<target>" "$@"; with
\* "#! /usr/bin/env bash" in the env form for bash (exec "$b/bash" ... and
\* exec "<path of bash>" ...); with "#! /usr/bin/env -S node --experimental"
\* in the env form for node with --experimental in both exec lines.
C19_ShimForms ==
  \A i \in 1..Len(shimLog) :
    LET r == shimLog[i]
        target == r.before.target
        firstLine == FirstLineOf(r.fileText)
    IN r.outcome = "ok"
       => /\ firstLine = <<"#!", "/", "bin", "/", "sh">>
             => r.lines = << <<"exec">> \o ExecTail(target) >>
          /\ firstLine = <<"#!", "/", "usr", "/", "bin", "/", "node">>
             => r.lines = << <<"exec", " ", "/", "usr", "/", "bin", "/", "node">>
                               \o ExecTail(target) >>
          /\ firstLine = <<"#!", " ", "/", "usr", "/", "bin", "/", "env", " ", "bash">>
             => /\ Len(r.lines) = 4
                /\ r.lines[2] = <<"exec", " ", "\"", "$b", "/", "bash", "\"">> \o ExecTail(target)
                /\ r.lines[4] = <<"exec", " ", "\"", "/", "usr", "/", "bin", "/", "bash", "\"">>
                                  \o ExecTail(target)
          /\ firstLine = <<"#!", " ", "/", "usr", "/", "bin", "/", "env", " ", "-S", " ", "node",
                           " ", "--experimental">>
             => /\ Len(r.lines) = 4
                /\ SubSeq(r.lines[2], 1, 6) = <<"exec", " ", "\"", "$b", "/", "node">>
                /\ SubSeq(r.lines[4], 1, 9) =
                     <<"exec", " ", "\"", "/", "usr", "/", "bin", "/", "node">>
                /\ "--experimental" \in TokensOf(r.lines[2])
                /\ "--experimental" \in TokensOf(r.lines[4])

\* C20: a pass of the shim loop over an entry that is a symlink to a file
\* whose shebang names an env-style interpreter that is not in the search
\* path ends the run with an error: no wrapper is written for the entry,
\* which is still the symlink it was, no later entry is processed, and
\* the entries processed before it hold the wrappers written for them.
C20_InterpreterNotFound ==
  \A i \in 1..Len(shimLog) :
    LET r == shimLog[i] IN
    (/\ r.before.k = "link"
     /\ r.shebang # NoShebang
     /\ r.shebang.arg0[1] # "/"
     /\ EntryAt(fs, PathKey(WhichPath(r.shebang.arg0))).k = "absent")
    => /\ r.outcome = "not found"
       /\ r.lines = <<>>
       /\ i = Len(shimLog)
       /\ pc = "aborted"
       /\ error = "not found"
       /\ EntryAt(fs, r.key) = r.before
       /\ \A j \in 1..(i - 1) :
            /\ shimLog[j].outcome = "ok"
            /\ EntryAt(fs, shimLog[j].key) = FileOf(shimLog[j].lines)

\* C20 witness: a wrapper was written for one entry, then the interpreter
\* of the next entry was not found
C20_Witness ==
  /\ Len(shimLog) >= 2
  /\ shimLog[1].outcome = "ok"
  /\ shimLog[Len(shimLog)].outcome = "not found"
  /\ error = "not found"

\* the run has aborted where the first run did, on the same error
AbortedAsFirst ==
  /\ first.ended = "aborted"
  /\ first.error = error
  /\ first.stack = stack

\* everything the first run left on disk is on disk as it was
KeptFromFirst ==
  \A key \in DOMAIN first.fs :
    first.fs[key].k # "absent" => EntryAt(fs, key) = first.fs[key]

\* C22: a second run on the disk an earlier run of the same input left
\* (completed or aborted) takes what that run left as it is and raises no
\* error on it: it aborts nowhere but where the run before was aborted already,
\* so it completes when the earlier run completed, and what the earlier run
\* left is on disk unchanged when it is done.
C22_Resumable ==
  run = 2 =>
    /\ pc = "aborted" => AbortedAsFirst
    /\ pc = "done" => KeptFromFirst

\* a binary link of a root dependency found its entry in node_modules/.bin
\* on disk already, as a link with another target
BinCollision(b) == b.before.k = "link" /\ b.before.target # b.target

\* C23: when a root dependency declares a binary whose entry in
\* node_modules/.bin is on disk already with another target, the entry is
\* kept as it is, the pass only warns and the run goes on; and no pass ever
\* replaces an entry that is on disk.
C23_FirstWriterWins ==
  \A i \in 1..Len(binLog) :
    /\ BinCollision(binLog[i]) =>
         (binLog[i].outcome = "warned" /\ binLog[i].after = binLog[i].before)
    /\ binLog[i].before.k # "absent" => binLog[i].after = binLog[i].before

====
